---- MODULE Spec2Model ----
(***************************************************************************)
(* Prefetch-and-display cache engine of the desktop SpeechTranscriber      *)
(* (class SpeechTranscriber, src/unnamed/part_002).                        *)
(*                                                                         *)
(* A text is a sequence of one-character strings, so that trim(),          *)
(* toLowerCase(), length and split(/\s+/) are computed, not assumed.       *)
(* Time is in milliseconds.  The code only ever looks at differences of    *)
(* Date.now() values, so every stored time is kept relative to the         *)
(* present: a timeout by the time left until it is due, a cache entry by   *)
(* its age (Date.now() - timestamp).  An age above cacheMaxAge is recorded *)
(* as cacheMaxAge + 1: the code compares ages above cacheMaxAge with       *)
(* nothing but cacheMaxAge, and drops such entries before it sorts.        *)
(* Timers (setTimeout) fire when their time is up; remote calls settle at  *)
(* any later moment, in any order, with a non-empty answer, an empty       *)
(* answer or a failure.                                                    *)
(* Latency figures (performance.now() differences) only feed labels and    *)
(* the latency history; they are not part of this state.                   *)
(***************************************************************************)
EXTENDS Integers, Sequences, FiniteSets, TLC

(***************************************************************************)
(* Program constants                                                       *)
(***************************************************************************)
pauseDelay == 1000
cacheMaxAge == 10000
maxCacheSize == 20
prefetchDebounceDelay == 200
autoHideDelay == 20000
minPrefetchLength == 3
minWords == 3

(***************************************************************************)
(* Bounds of the model                                                     *)
(***************************************************************************)
MaxEvents == 3
MaxCalls == 3
FallbackPicks == 1
MaxKeys == 22
ReuseKeys == 1

(***************************************************************************)
(* Strings                                                                 *)
(***************************************************************************)
IsSpace(c) == c = " "

toLowerChar(c) ==
    CASE c = "A" -> "a"
      [] c = "B" -> "b"
      [] c = "C" -> "c"
      [] c = "I" -> "i"
      [] OTHER -> c

RECURSIVE trimStart(_)
trimStart(s) ==
    IF s # <<>> /\ IsSpace(Head(s)) THEN trimStart(Tail(s)) ELSE s

RECURSIVE trimEnd(_)
trimEnd(s) ==
    IF s # <<>> /\ IsSpace(s[Len(s)])
    THEN trimEnd(SubSeq(s, 1, Len(s) - 1))
    ELSE s

trim(s) == trimEnd(trimStart(s))

RECURSIVE toLowerCase(_)
toLowerCase(s) ==
    IF s = <<>> THEN <<>>
    ELSE <<toLowerChar(Head(s))>> \o toLowerCase(Tail(s))

\* text.trim().toLowerCase()
\* a key that keeps the letter case of the text
CacheKey_CaseSensitive(text) == trim(text)

CacheKey(text) == toLowerCase(trim(text))

\* text.trim().split(/\s+/).length : the empty string splits into [""]
WordCount(text) ==
    LET t == trim(text)
    IN  IF t = <<>> THEN 1
        ELSE Cardinality({i \in 1..Len(t) :
                 ~IsSpace(t[i]) /\ (i = 1 \/ IsSpace(t[i - 1]))})

(***************************************************************************)
(* Suggestion lists                                                        *)
(***************************************************************************)
fallbacks ==
    << << <<"a","n","d"," ","t","h","e","n">>,
          <<"b","e","c","a","u","s","e">>,
          <<"h","o","w","e","v","e","r">> >>,
       << <<"s","p","e","c","i","f","i","c","a","l","l","y">>,
          <<"f","o","r"," ","e","x","a","m","p","l","e">>,
          <<"i","n"," ","p","a","r","t","i","c","u","l","a","r">> >>,
       << <<"t","h","e","r","e","f","o","r","e">>,
          <<"m","e","a","n","w","h","i","l","e">>,
          <<"a","d","d","i","t","i","o","n","a","l","l","y">> >>,
       << <<"s","u","c","h"," ","a","s">>,
          <<"i","n","c","l","u","d","i","n","g">>,
          <<"l","i","k","e">> >>,
       << <<"i","n"," ","o","r","d","e","r"," ","t","o">>,
          <<"s","o"," ","t","h","a","t">>,
          <<"w","h","i","c","h"," ","m","e","a","n","s">> >> >>

\* Math.floor(Math.random() * fallbacks.length): any row; the model explores
\* the first FallbackPicks of them.
FallbackRows == 1..(IF FallbackPicks < Len(fallbacks) THEN FallbackPicks ELSE Len(fallbacks))

getFallbackSuggestions(row) == fallbacks[row]

\* What a successful remote call for `text` parses to when the answer holds a
\* question: one question about the text.  An answer without any question
\* text parses to the empty list.
LLMAnswer(text) == << trim(text) \o <<"?">> >>

Outcomes == {"ok", "empty", "fail"}

(***************************************************************************)
(* suggestionCache: a Map, kept as the sequence of its entries in          *)
(* insertion order.                                                        *)
(***************************************************************************)
CacheHas(cache, key) == \E i \in 1..Len(cache) : cache[i].key = key

CacheGet(cache, key) ==
    cache[CHOOSE i \in 1..Len(cache) : cache[i].key = key]

\* Map.set: an existing key keeps its position
CacheSet(cache, key, entry) ==
    IF CacheHas(cache, key)
    THEN [i \in 1..Len(cache) |->
             IF cache[i].key = key THEN entry ELSE cache[i]]
    ELSE Append(cache, entry)

\* age = Date.now() - cached.timestamp
isCacheValid(cache, key) ==
    /\ CacheHas(cache, key)
    /\ CacheGet(cache, key).age < cacheMaxAge

RECURSIVE InsertNewestFirst(_, _)
InsertNewestFirst(e, s) ==
    IF s = <<>> THEN <<e>>
    ELSE IF Head(s).age <= e.age
         THEN <<Head(s)>> \o InsertNewestFirst(e, Tail(s))
         ELSE <<e>> \o s

\* entries.sort((a, b) => b[1].timestamp - a[1].timestamp), a stable sort:
\* newest (smallest age) first
RECURSIVE SortNewestFirst(_)
SortNewestFirst(s) ==
    IF s = <<>> THEN <<>>
    ELSE InsertNewestFirst(s[Len(s)], SortNewestFirst(SubSeq(s, 1, Len(s) - 1)))

\* now - value.timestamp > cacheMaxAge
RemoveOld(cache) ==
    SelectSeq(cache, LAMBDA e : ~(e.age > cacheMaxAge))

LimitSize(cache) ==
    IF Len(cache) > maxCacheSize
    THEN SubSeq(SortNewestFirst(cache), 1, maxCacheSize)
    ELSE cache

\* cleanupCache without its size limit
cleanupCache_OnlyExpiry(cache) == RemoveOld(cache)

cleanupCache(cache) == LimitSize(RemoveOld(cache))

cacheResult(cache, key, result) ==
    cleanupCache(CacheSet(cache, key, result))

\* { suggestions, source, timestamp: Date.now() } under its key
CacheEntry(key, suggestions, source) ==
    [key |-> key, suggestions |-> suggestions, source |-> source, age |-> 0]

(***************************************************************************)
(* State                                                                   *)
(***************************************************************************)
VARIABLES
    lastInterimText,        \* this.lastInterimText
    pauseTimer,             \* this.pauseTimer: the pending timeout and its text
    prefetchDebounceTimer,  \* this.prefetchDebounceTimer, likewise
    autoHideTimer,          \* this.autoHideTimer
    isProcessingLLM,        \* this.isProcessingLLM
    lastValidSuggestions,   \* this.lastValidSuggestions
    display,                \* the suggestions container, its chips and label
    suggestionCache,        \* this.suggestionCache
    activePrefetchCalls,    \* this.activePrefetchCalls: key -> call
    calls,                  \* remote calls (callLLMAPI) not yet settled
    callCount,              \* history: number of remote calls started
    livePreview,            \* this.livePreview.textContent
    lastUpdate,             \* history: the latest transcript update
    eventCount,             \* history: number of results, session ends, clears and applied suggestions
    lastFailure,            \* history: the key of the call that failed last, and how long ago
    isListening,            \* this.isListening
    recognition,            \* the state of the browser's SpeechRecognition object
    latencyHistory,         \* this.latencyHistory
    service,                \* a SharedLLMService: its cache and rateLimiter
    svcPending,             \* generateSuggestions calls waiting in makeAPIRequest
    svcResult,              \* what the generateSuggestions call that settled last gave
    mobile,                 \* a MobileSpeechTranscriber: its fields
    localStorage,           \* localStorage['mobileFeatureFlags']
    radio,                  \* the checked input[name="suggestionStyle"] of the mobile page
    mobileOp                \* history: the handler of the mobile page that ran last

vars == << lastInterimText, pauseTimer, prefetchDebounceTimer,
           autoHideTimer, isProcessingLLM, lastValidSuggestions, display,
           suggestionCache, activePrefetchCalls, calls, callCount, livePreview,
           lastUpdate, eventCount, lastFailure, isListening, recognition,
           latencyHistory, service, svcPending, svcResult, mobile,
           localStorage, radio, mobileOp >>

recordingVars == << isListening, recognition >>
svcVars == << service, svcPending, svcResult >>
mobileVars == << mobile, localStorage, radio, mobileOp >>
desktopVars == << lastInterimText, pauseTimer, prefetchDebounceTimer,
                  autoHideTimer, isProcessingLLM, lastValidSuggestions, display,
                  suggestionCache, activePrefetchCalls, calls, callCount,
                  livePreview, lastUpdate, eventCount, lastFailure >>

\* a timeout handle: pending or not, the time left, the text its callback holds
\* the live preview shows the transcript, or a placeholder paragraph
Placeholder == <<"Start speaking and your words will appear here in real-time...">>

updateLivePreview(text) == IF trim(text) # <<>> THEN text ELSE Placeholder

\* no call has failed within the last cacheMaxAge milliseconds, or the
\* transcript has been cleared since
NoFailure == [present |-> FALSE, key |-> <<>>, age |-> 0]

\* A timer field: the timeout it refers to, if that is pending, with the
\* text its callback closes over.  superseded is history: the number of
\* timeouts of this kind that were replaced in the field without being
\* cancelled.
NoTimer == [armed |-> FALSE, left |-> 0, text |-> <<>>, superseded |-> 0]
Timer(delay, text) ==
    [armed |-> TRUE, left |-> delay, text |-> text, superseded |-> 0]

\* if (this.timer) clearTimeout(this.timer)
clearTimeout(timer) == [NoTimer EXCEPT !.superseded = timer.superseded]

\* this.timer = setTimeout(callback, delay) over the previous value of the
\* field
setTimeout(previous, delay, text) ==
    [Timer(delay, text) EXCEPT
        !.superseded = previous.superseded + (IF previous.armed THEN 1 ELSE 0)]

\* lastValidSuggestions = null.  forText (here and in display) is history:
\* the text whose request produced the suggestions.
NoSuggestions ==
    [present |-> FALSE, suggestions |-> <<>>, source |-> "",
     isFromCache |-> FALSE, forText |-> <<>>]

\* createSuggestionsUI: the container exists, is not shown, has no chips
NoDisplay ==
    [visible |-> FALSE, kind |-> "none", chips |-> <<>>, label |-> "",
     forText |-> <<>>]

(***************************************************************************)
(* The latency history of SpeechTranscriber                                *)
(***************************************************************************)
maxLatencyHistory == 10

\* the durations performance.now() - apiCallStartTime can come to, in ms
MaxLatency == 1
Latencies == 1..MaxLatency

\* updateLatencyHistory that never drops a sample
updateLatencyHistory_NoShift(history, latency) == Append(history, latency)

\* push, then shift while the length exceeds maxLatencyHistory
updateLatencyHistory(history, latency) ==
    LET pushed == Append(history, latency)
    IN  IF Len(pushed) > maxLatencyHistory THEN Tail(pushed) ELSE pushed

(***************************************************************************)
(* SharedLLMService as constructed: an empty cache, a rate limiter that    *)
(* has counted no request and was reset just now.  sinceReset stands for   *)
(* Date.now() - rateLimiter.lastReset.                                     *)
(***************************************************************************)
NewService ==
    [cache |-> <<>>, rateLimiter |-> [requests |-> 0, sinceReset |-> 0]]

\* no generateSuggestions call has settled yet
NoResult == [settled |-> "none", suggestions |-> <<>>, source |-> "", error |-> ""]

(***************************************************************************)
(* MobileSpeechTranscriber as its constructor leaves it, before init()     *)
(***************************************************************************)
Missing == [present |-> FALSE, value |-> <<>>]   \* getItem gives null
NoRadio == "none"              \* no input[name="suggestionStyle"] is checked
DefaultFlags == [suggestionStyle |-> "default"]
MobilePlaceholder == <<"Tap the microphone to start speaking...">>
NoPills == [state |-> "hidden", suggestions |-> <<>>]
NoMobileSuggestions == [present |-> FALSE, suggestions |-> <<>>]   \* null

NewMobile ==
    [featureFlags |-> DefaultFlags,
     persistentTranscript |-> <<>>,
     currentSessionTranscript |-> <<>>,
     lastInterimText |-> <<>>,
     liveText |-> MobilePlaceholder,
     pauseTimer |-> FALSE,
     prefetchDebounceTimer |-> [armed |-> FALSE, text |-> <<>>],
     isProcessingLLM |-> FALSE,
     lastValidSuggestions |-> NoMobileSuggestions,
     lastSuggestionContext |-> <<>>,
     pills |-> NoPills,
     suggestionCache |-> <<>>,
     activePrefetchCalls |-> {},
     calls |-> {},          \* history: getLLMSuggestions calls not yet settled
     uncaught |-> FALSE]    \* history: an exception has left a handler uncaught

Init ==
    /\ lastInterimText = <<>>
    /\ pauseTimer = NoTimer
    /\ prefetchDebounceTimer = NoTimer
    /\ autoHideTimer = NoTimer
    /\ isProcessingLLM = FALSE
    /\ lastValidSuggestions = NoSuggestions
    /\ display = NoDisplay
    /\ suggestionCache = <<>>
    /\ activePrefetchCalls = {}
    /\ calls = {}
    /\ callCount = 0
    /\ livePreview = Placeholder
    /\ lastUpdate = <<>>
    /\ eventCount = 0
    /\ lastFailure = NoFailure
    /\ isListening = FALSE
    /\ recognition = "idle"
    /\ latencyHistory = <<>>
    /\ service = NewService
    /\ svcPending = <<>>
    /\ svcResult = NoResult
    /\ mobile = NewMobile
    /\ localStorage = Missing
    /\ radio = NoRadio
    /\ mobileOp = "init"

(***************************************************************************)
(* The suggestions UI.  The three fields displaySuggestions writes travel  *)
(* together as a record ui; `rendered` tells that displaySuggestions has   *)
(* put a result on the screen during the current handler.                  *)
(***************************************************************************)
UI ==
    [lvs |-> lastValidSuggestions, display |-> display,
     autoHide |-> autoHideTimer, rendered |-> FALSE]

SourceLabel(source, isFromCache) ==
    IF source = "llm"
    THEN (IF isFromCache THEN "AI Cached" ELSE "AI Powered")
    ELSE "Fallback"

hideSuggestions(d) == [d EXCEPT !.visible = FALSE]

showLoadingSuggestions(d) ==
    [visible |-> TRUE, kind |-> "loading", chips |-> <<>>, label |-> "",
     forText |-> <<>>]

showLastValidSuggestions(ui) ==
    IF ui.lvs.present /\ Len(ui.lvs.suggestions) > 0
    THEN [ui EXCEPT !.display =
             [visible |-> TRUE, kind |-> "persistent",
              chips |-> ui.lvs.suggestions, label |-> "Previous Suggestions",
              forText |-> ui.lvs.forText]]
    ELSE ui

displaySuggestions(ui, suggestions, source, isFromCache, forText) ==
    IF Len(suggestions) = 0
    THEN showLastValidSuggestions(ui)
    ELSE [lvs |-> [present |-> TRUE, suggestions |-> suggestions,
                   source |-> source, isFromCache |-> isFromCache,
                   forText |-> forText],
          display |-> [visible |-> TRUE, kind |-> "chips",
                       chips |-> suggestions,
                       label |-> SourceLabel(source, isFromCache),
                       forText |-> forText],
          autoHide |-> setTimeout(clearTimeout(ui.autoHide), autoHideDelay,
                                  <<>>),
          rendered |-> TRUE]

maybeUpdateDisplayedSuggestions(ui, interim, text, suggestions, source) ==
    IF ui.display.visible /\ CacheKey(text) = CacheKey(interim)
    THEN displaySuggestions(ui, suggestions, source, FALSE, text)
    ELSE ui

(***************************************************************************)
(* Remote calls.  A call is [id, kind, text]; `stale` is history: since    *)
(* the call started, displaySuggestions has shown a result for another key.*)
(***************************************************************************)
NewCall(kind, text) ==
    [id |-> callCount + 1, kind |-> kind, text |-> text, stale |-> FALSE]

Supersede(cs, ui) ==
    IF ui.rendered
    THEN {[c EXCEPT !.stale =
              c.stale \/ CacheKey(c.text) # CacheKey(ui.display.forText)] : c \in cs}
    ELSE cs

ActiveHas(apc, key) == \E p \in apc : p.key = key
\* a settled prefetch leaving its registry entry behind
ActiveDelete_Keeps(apc, key) == apc

ActiveDelete(apc, key) == {p \in apc : p.key # key}
ActiveSet(apc, key, id) == ActiveDelete(apc, key) \cup {[key |-> key, id |-> id]}

\* a failed call handing on nothing instead of the fallback suggestions
ResultOf_FailEmpty(text, outcome, row) ==
    CASE outcome = "ok" -> [suggestions |-> LLMAnswer(text), source |-> "llm"]
      [] OTHER -> [suggestions |-> <<>>, source |-> "llm"]

\* the suggestions and source a settling call hands on
ResultOf(text, outcome, row) ==
    CASE outcome = "ok" -> [suggestions |-> LLMAnswer(text), source |-> "llm"]
      [] outcome = "empty" -> [suggestions |-> <<>>, source |-> "llm"]
      [] OTHER -> [suggestions |-> getFallbackSuggestions(row), source |-> "fallback"]

(***************************************************************************)
(* Handlers' subroutines.  Each returns what it leaves behind: the ui      *)
(* record, isProcessingLLM and the remote calls it started.                *)
(***************************************************************************)
Outcome(ui, processing, started) ==
    [ui |-> ui, processing |-> processing, started |-> started]

\* triggerLLMSuggestions without its isProcessingLLM = true
triggerLLMSuggestions_NoFlag(ui, processing, text) ==
    IF processing \/ trim(text) = <<>> \/ WordCount(text) < minWords
    THEN Outcome(ui, processing, {})
    ELSE Outcome([ui EXCEPT !.display = showLoadingSuggestions(ui.display)],
                 processing, {NewCall("direct", text)})

triggerLLMSuggestions(ui, processing, text) ==
    IF processing \/ trim(text) = <<>>
    THEN Outcome(ui, processing, {})
    ELSE IF WordCount(text) < minWords
    THEN Outcome(ui, processing, {})
    ELSE Outcome([ui EXCEPT !.display = showLoadingSuggestions(ui.display)],
                 TRUE, {NewCall("direct", text)})

\* showCachedSuggestions displaying a cached entry as if it were fresh
showCachedSuggestions_NotFromCache(ui, processing, cache, text) ==
    LET cacheKey == CacheKey(text)
    IN  IF CacheHas(cache, cacheKey) /\ isCacheValid(cache, cacheKey)
        THEN LET cached == CacheGet(cache, cacheKey)
             IN  Outcome(displaySuggestions(ui, cached.suggestions, cached.source,
                                            FALSE, text),
                         processing, {})
        ELSE IF WordCount(text) >= minWords
        THEN IF ui.lvs.present /\ Len(ui.lvs.suggestions) > 0
             THEN Outcome(showLastValidSuggestions(ui), processing, {})
             ELSE triggerLLMSuggestions(ui, processing, text)
        ELSE Outcome(ui, processing, {})

showCachedSuggestions(ui, processing, cache, text) ==
    LET cacheKey == CacheKey(text)
    IN  IF CacheHas(cache, cacheKey) /\ isCacheValid(cache, cacheKey)
        THEN LET cached == CacheGet(cache, cacheKey)
             IN  Outcome(displaySuggestions(ui, cached.suggestions, cached.source,
                                            TRUE, text),
                         processing, {})
        ELSE IF WordCount(text) >= minWords
        THEN IF ui.lvs.present /\ Len(ui.lvs.suggestions) > 0
             THEN Outcome(showLastValidSuggestions(ui), processing, {})
             ELSE triggerLLMSuggestions(ui, processing, text)
        ELSE Outcome(ui, processing, {})

\* prefetchSuggestions without its word-count check
prefetchSuggestions_NoWordGate(cache, apc, text) ==
    LET cacheKey == CacheKey(text)
    IN  IF isCacheValid(cache, cacheKey) THEN {}
        ELSE IF ActiveHas(apc, cacheKey) THEN {}
        ELSE {NewCall("prefetch", text)}

\* prefetchSuggestions up to its await: does it start performPrefetch?
prefetchSuggestions(cache, apc, text) ==
    LET cacheKey == CacheKey(text)
    IN  IF WordCount(text) < minWords THEN {}
        ELSE IF isCacheValid(cache, cacheKey) THEN {}
        ELSE IF ActiveHas(apc, cacheKey) THEN {}
        ELSE {NewCall("prefetch", text)}

triggerPrefetch(timer, currentText) ==
    IF trim(currentText) = <<>> \/ Len(currentText) < minPrefetchLength
    THEN timer
    ELSE setTimeout(clearTimeout(timer), prefetchDebounceDelay, currentText)

\* handlePauseDetection leaving the previous timeout pending
handlePauseDetection_NoCancel(timer, interim, currentText) ==
    IF trim(currentText) # <<>> /\ currentText # interim
    THEN [timer |-> setTimeout(timer, pauseDelay, currentText),
          interim |-> currentText]
    ELSE [timer |-> timer, interim |-> interim]

\* the pause timer and lastInterimText after handlePauseDetection
handlePauseDetection(timer, interim, currentText) ==
    LET cleared == clearTimeout(timer)
    IN  IF trim(currentText) # <<>> /\ currentText # interim
        THEN [timer |-> setTimeout(cleared, pauseDelay, currentText),
              interim |-> currentText]
        ELSE [timer |-> cleared, interim |-> interim]

(***************************************************************************)
(* Inputs                                                                  *)
(***************************************************************************)
TextA == <<"a", " ", "b", " ", "c">>
TextB == <<"d", " ", "e", " ", "f">>
TextShort == <<"a", " ", "b">>
TextBlank == <<" ">>
Texts == {TextA, TextB, TextShort, TextBlank}

(***************************************************************************)
(* Actions                                                                 *)
(***************************************************************************)
Due(timer) == timer.armed /\ timer.left = 0

StartCalls(started) ==
    /\ started # {} => callCount < MaxCalls
    /\ callCount' = callCount + Cardinality(started)

\* recognition.onresult with the full text of the event's results
OnRecognitionResult(fullText) ==
    /\ eventCount < MaxEvents
    /\ prefetchDebounceTimer' = triggerPrefetch(prefetchDebounceTimer, fullText)
    /\ LET p == handlePauseDetection(pauseTimer, lastInterimText, fullText)
       IN  /\ pauseTimer' = p.timer
           /\ lastInterimText' = p.interim
    /\ lastUpdate' = fullText
    /\ livePreview' = updateLivePreview(fullText)
    /\ eventCount' = eventCount + 1
    /\ UNCHANGED << recordingVars, latencyHistory, svcVars, mobileVars,
                    autoHideTimer, isProcessingLLM, lastValidSuggestions,
                    display, suggestionCache, activePrefetchCalls, calls,
                    callCount, lastFailure >>

\* the pause timeout runs showCachedSuggestions(currentText)
PauseTimerFires ==
    /\ Due(pauseTimer)
    /\ LET r == showCachedSuggestions(UI, isProcessingLLM, suggestionCache,
                                      pauseTimer.text)
       IN  /\ StartCalls(r.started)
           /\ lastValidSuggestions' = r.ui.lvs
           /\ display' = r.ui.display
           /\ autoHideTimer' = r.ui.autoHide
           /\ isProcessingLLM' = r.processing
           /\ calls' = Supersede(calls, r.ui) \cup r.started
    /\ pauseTimer' = NoTimer
    /\ UNCHANGED << recordingVars, latencyHistory, svcVars, mobileVars,
                    lastInterimText, prefetchDebounceTimer, suggestionCache,
                    activePrefetchCalls, lastUpdate, eventCount,
                    livePreview, lastFailure >>

\* the debounce timeout runs prefetchSuggestions(currentText)
PrefetchTimerFires ==
    /\ Due(prefetchDebounceTimer)
    /\ LET started == prefetchSuggestions(suggestionCache, activePrefetchCalls,
                                          prefetchDebounceTimer.text)
       IN  /\ StartCalls(started)
           /\ calls' = calls \cup started
           /\ activePrefetchCalls' =
                 IF started = {} THEN activePrefetchCalls
                 ELSE ActiveSet(activePrefetchCalls,
                                CacheKey(prefetchDebounceTimer.text),
                                callCount + 1)
    /\ prefetchDebounceTimer' = NoTimer
    /\ UNCHANGED << recordingVars, latencyHistory, svcVars, mobileVars,
                    lastInterimText, pauseTimer, autoHideTimer,
                    isProcessingLLM, lastValidSuggestions, display,
                    suggestionCache, lastUpdate, eventCount,
                    livePreview, lastFailure >>

\* the auto-hide timeout runs hideSuggestions()
AutoHideTimerFires ==
    /\ Due(autoHideTimer)
    /\ display' = hideSuggestions(display)
    /\ autoHideTimer' = NoTimer
    /\ UNCHANGED << recordingVars, latencyHistory, svcVars, mobileVars,
                    lastInterimText, pauseTimer, prefetchDebounceTimer,
                    isProcessingLLM, lastValidSuggestions, suggestionCache,
                    activePrefetchCalls, calls, callCount, lastUpdate, eventCount,
                    livePreview, lastFailure >>

\* a failed call starts the window in which its key is not to be retried
FailureOf(c, outcome) ==
    IF outcome = "fail"
    THEN [present |-> TRUE, key |-> CacheKey(c.text), age |-> 0]
    ELSE lastFailure

\* callLLMAPI settles inside performPrefetch; prefetchSuggestions' finally
\* block follows before any other handler runs
PrefetchSettles(c, outcome, row) ==
    /\ c \in calls /\ c.kind = "prefetch"
    /\ lastFailure' = FailureOf(c, outcome)
    /\ LET res == ResultOf(c.text, outcome, row)
           cacheKey == CacheKey(c.text)
           ui == maybeUpdateDisplayedSuggestions(UI, lastInterimText, c.text,
                                                 res.suggestions, res.source)
       IN  /\ suggestionCache' =
                 cacheResult(suggestionCache, cacheKey,
                             CacheEntry(cacheKey, res.suggestions, res.source))
           /\ lastValidSuggestions' = ui.lvs
           /\ display' = ui.display
           /\ autoHideTimer' = ui.autoHide
           /\ calls' = Supersede(calls \ {c}, ui)
           /\ activePrefetchCalls' = ActiveDelete(activePrefetchCalls, cacheKey)
    /\ UNCHANGED << recordingVars, latencyHistory, svcVars, mobileVars,
                    lastInterimText, pauseTimer, prefetchDebounceTimer,
                    isProcessingLLM, callCount, lastUpdate, eventCount,
                    livePreview >>

\* callLLMAPI settles inside triggerLLMSuggestions
DirectSettles(c, outcome, row) ==
    /\ c \in calls /\ c.kind = "direct"
    /\ \E latency \in Latencies :
          latencyHistory' = updateLatencyHistory(latencyHistory, latency)
    /\ lastFailure' = FailureOf(c, outcome)
    /\ LET res == ResultOf(c.text, outcome, row)
           ui == displaySuggestions(UI, res.suggestions, res.source, FALSE,
                                    c.text)
       IN  /\ lastValidSuggestions' = ui.lvs
           /\ display' = ui.display
           /\ autoHideTimer' = ui.autoHide
           /\ calls' = Supersede(calls \ {c}, ui)
    /\ isProcessingLLM' = FALSE
    /\ UNCHANGED << recordingVars, svcVars, mobileVars,
                    lastInterimText, pauseTimer, prefetchDebounceTimer,
                    suggestionCache, activePrefetchCalls, callCount, lastUpdate,
                    eventCount,
                    livePreview >>

\* currentText.replace(/Start speaking.*$/, ''): the text before the placeholder
StripPlaceholder(s) ==
    LET at == {i \in 1..Len(s) : s[i] = Placeholder[1]}
    IN  IF at = {} THEN s
        ELSE SubSeq(s, 1, (CHOOSE i \in at : \A j \in at : i <= j) - 1)

\* a click on the chip of `suggestion`
ApplySuggestion(suggestion) ==
    /\ eventCount < MaxEvents
    /\ eventCount' = eventCount + 1
    /\ display.visible
    /\ \E i \in 1..Len(display.chips) : display.chips[i] = suggestion
    /\ LET newText == trim(StripPlaceholder(livePreview)) \o <<" ">>
                          \o suggestion \o <<" ">>
       IN  /\ livePreview' = updateLivePreview(newText)
           /\ lastInterimText' = newText
    /\ display' = hideSuggestions(display)
    /\ UNCHANGED << recordingVars, latencyHistory, svcVars, mobileVars,
                    pauseTimer, prefetchDebounceTimer, autoHideTimer,
                    isProcessingLLM, lastValidSuggestions, suggestionCache,
                    activePrefetchCalls, calls, callCount, lastUpdate, lastFailure >>

\* clearTranscription leaving the cache as it is
ClearTranscription_KeepsCache ==
    /\ eventCount < MaxEvents
    /\ eventCount' = eventCount + 1
    /\ display' = hideSuggestions(display)
    /\ pauseTimer' = NoTimer
    /\ prefetchDebounceTimer' = NoTimer
    /\ autoHideTimer' = NoTimer
    /\ lastValidSuggestions' = NoSuggestions
    /\ activePrefetchCalls' = {}
    /\ livePreview' = Placeholder
    /\ lastFailure' = NoFailure
    /\ UNCHANGED << recordingVars, latencyHistory, svcVars, mobileVars,
                    lastInterimText, isProcessingLLM, calls, callCount,
                    lastUpdate, suggestionCache >>

ClearTranscription ==
    /\ eventCount < MaxEvents
    /\ eventCount' = eventCount + 1
    /\ display' = hideSuggestions(display)
    /\ pauseTimer' = NoTimer
    /\ prefetchDebounceTimer' = NoTimer
    /\ autoHideTimer' = NoTimer
    /\ lastValidSuggestions' = NoSuggestions
    /\ suggestionCache' = <<>>
    /\ activePrefetchCalls' = {}
    /\ livePreview' = Placeholder
    /\ lastFailure' = NoFailure
    /\ UNCHANGED << recordingVars, latencyHistory, svcVars, mobileVars,
                    lastInterimText, isProcessingLLM, calls, callCount,
                    lastUpdate >>

\* onRecognitionEnd with the hideSuggestions() call it no longer makes
OnRecognitionEnd_Hides ==
    /\ eventCount < MaxEvents
    /\ eventCount' = eventCount + 1
    /\ isListening' = FALSE
    /\ recognition' = "idle"
    /\ display' = hideSuggestions(display)
    /\ pauseTimer' = NoTimer
    /\ prefetchDebounceTimer' = NoTimer
    /\ autoHideTimer' = NoTimer
    /\ suggestionCache' = cleanupCache(suggestionCache)
    /\ UNCHANGED << latencyHistory, svcVars, mobileVars,
                    lastInterimText, isProcessingLLM, lastValidSuggestions,
                    activePrefetchCalls, calls, callCount, lastUpdate,
                    livePreview, lastFailure >>

OnRecognitionEnd ==
    /\ eventCount < MaxEvents
    /\ eventCount' = eventCount + 1
    /\ isListening' = FALSE
    /\ recognition' = "idle"
    /\ pauseTimer' = NoTimer
    /\ prefetchDebounceTimer' = NoTimer
    /\ autoHideTimer' = NoTimer
    /\ suggestionCache' = cleanupCache(suggestionCache)
    /\ UNCHANGED << latencyHistory, svcVars, mobileVars,
                    lastInterimText, isProcessingLLM, lastValidSuggestions,
                    display, activePrefetchCalls, calls, callCount, lastUpdate,
                    livePreview, lastFailure >>

\* Time passes: d milliseconds go by on every pending timeout and on every
\* cache entry.
Elapse(timer, d) ==
    IF timer.armed THEN [timer EXCEPT !.left = timer.left - d] ELSE timer

Older(age, d) ==
    IF age + d > cacheMaxAge THEN cacheMaxAge + 1 ELSE age + d

Pending == {x \in {pauseTimer, prefetchDebounceTimer, autoHideTimer} : x.armed}

\* at most `step`, and no further than the next timeout that is due
UpTo(step) ==
    IF \E x \in Pending : x.left <= step
    THEN (CHOOSE x \in Pending : \A y \in Pending : x.left <= y.left).left
    ELSE step

Advance(d) ==
    /\ d > 0
    /\ lastFailure' =
          IF lastFailure.present /\ lastFailure.age + d < cacheMaxAge
          THEN [lastFailure EXCEPT !.age = lastFailure.age + d]
          ELSE NoFailure
    /\ pauseTimer' = Elapse(pauseTimer, d)
    /\ prefetchDebounceTimer' = Elapse(prefetchDebounceTimer, d)
    /\ autoHideTimer' = Elapse(autoHideTimer, d)
    /\ suggestionCache' =
          [i \in 1..Len(suggestionCache) |->
              [suggestionCache[i] EXCEPT !.age = Older(suggestionCache[i].age, d)]]
    /\ UNCHANGED << recordingVars, latencyHistory, svcVars, mobileVars,
                    lastInterimText, isProcessingLLM, lastValidSuggestions,
                    display, activePrefetchCalls, calls, callCount, lastUpdate,
                    eventCount,
                    livePreview >>

\* While a pause or debounce timeout is pending the clock runs to the next
\* timeout that is due; otherwise it runs on by IdleStep, or to the auto-hide
\* timeout if that is due sooner, as long as there is anything that ages.
IdleStep == cacheMaxAge - 2 * pauseDelay

TickToTimer ==
    /\ pauseTimer.armed \/ prefetchDebounceTimer.armed
    /\ Advance(UpTo(pauseDelay))

TickIdle ==
    /\ ~pauseTimer.armed /\ ~prefetchDebounceTimer.armed
    /\ autoHideTimer.armed \/ \E i \in 1..Len(suggestionCache) :
                                 suggestionCache[i].age <= cacheMaxAge
    /\ Advance(UpTo(IdleStep))

Next ==
    \/ \E text \in Texts : OnRecognitionResult(text)
    \/ PauseTimerFires
    \/ PrefetchTimerFires
    \/ AutoHideTimerFires
    \/ \E c \in calls, o \in Outcomes, row \in FallbackRows : PrefetchSettles(c, o, row)
    \/ \E c \in calls, o \in Outcomes, row \in FallbackRows : DirectSettles(c, o, row)
    \/ ClearTranscription
    \/ OnRecognitionEnd
    \/ \E i \in 1..Len(display.chips) : ApplySuggestion(display.chips[i])
    \/ TickToTimer
    \/ TickIdle

Spec == Init /\ [][Next]_vars

(***************************************************************************)
(* The cache on its own: results of prefetch calls for up to MaxKeys texts *)
(* are cached one after the other, several of them within one millisecond *)
(* or with time in between, mixed with session ends and clears.            *)
(***************************************************************************)
KeyText(k) == <<"a", " ", "b", " ">> \o [j \in 1..k |-> "c"]


\* the next text not used so far, or one of the first ReuseKeys texts again
\* while it is cached
WritableKeys ==
    {k \in 1..MaxKeys :
        \/ k = callCount + 1
        \/ k <= ReuseKeys /\ CacheHas(suggestionCache, CacheKey(KeyText(k)))}

\* a prefetch call for KeyText(k) is made and performPrefetch caches its
\* result, while nothing is shown
CacheWrite(k) ==
    /\ k \in WritableKeys
    /\ callCount' = IF k = callCount + 1 THEN k ELSE callCount
    /\ ~display.visible
    /\ suggestionCache' =
          cacheResult(suggestionCache, CacheKey(KeyText(k)),
                      CacheEntry(CacheKey(KeyText(k)), LLMAnswer(KeyText(k)), "llm"))
    /\ UNCHANGED << recordingVars, latencyHistory, svcVars, mobileVars,
                    lastInterimText, pauseTimer, prefetchDebounceTimer,
                    autoHideTimer, isProcessingLLM, lastValidSuggestions, display,
                    activePrefetchCalls, calls, lastUpdate, eventCount,
                    livePreview, lastFailure >>

CacheTick ==
    /\ \E i \in 1..Len(suggestionCache) : suggestionCache[i].age <= cacheMaxAge
    /\ Advance(cacheMaxAge)

NextCache ==
    \/ \E k \in WritableKeys : CacheWrite(k)
    \/ CacheTick
    \/ OnRecognitionEnd
    \/ ClearTranscription

SpecCache == Init /\ [][NextCache]_vars

(***************************************************************************)
(* The scenario of three quick updates and a pause, with a remote service  *)
(* that does not fail.                                                     *)
(***************************************************************************)
ScenarioTexts ==
    << <<"I","'","m">>,
       <<"I","'","m"," ","p","l","a","n","n","i","n","g">>,
       <<"I","'","m"," ","p","l","a","n","n","i","n","g"," ","a"," ","t","r","i","p">> >>

\* the next update of the scenario arrives while the debounce timeout of the
\* one before it still has time left
ScenarioUpdate ==
    /\ eventCount < Len(ScenarioTexts)
    /\ eventCount > 0 => prefetchDebounceTimer.armed /\ prefetchDebounceTimer.left > 0
    /\ OnRecognitionResult(ScenarioTexts[eventCount + 1])

\* time passes in steps of a quarter debounce delay while updates are still
\* to come or a call is still in flight
ScenarioTick ==
    /\ eventCount < Len(ScenarioTexts) \/ calls # {}
    /\ Advance(UpTo(prefetchDebounceDelay \div 4))

NextScenario ==
    \/ ScenarioUpdate
    \/ ScenarioTick
    \/ PauseTimerFires
    \/ PrefetchTimerFires
    \/ AutoHideTimerFires
    \/ \E c \in calls, o \in {"ok", "empty"} : PrefetchSettles(c, o, 1)
    \/ \E c \in calls, o \in {"ok", "empty"} : DirectSettles(c, o, 1)
    \/ TickToTimer
    \/ TickIdle

SpecScenario == Init /\ [][NextScenario]_vars

(***************************************************************************)
(* One sentence heard in several spellings: the recognizer reports the     *)
(* same words with other capitals or with spaces around them.              *)
(***************************************************************************)
TextAUpper == <<"A", " ", "B", " ", "C">>
VariantTexts == {TextA, <<" ", "A", " ", "b", " ", "C", " ">>, TextAUpper}

NextVariants ==
    \/ \E text \in VariantTexts : OnRecognitionResult(text)
    \/ PauseTimerFires
    \/ PrefetchTimerFires
    \/ AutoHideTimerFires
    \/ \E c \in calls, o \in Outcomes, row \in FallbackRows : PrefetchSettles(c, o, row)
    \/ \E c \in calls, o \in Outcomes, row \in FallbackRows : DirectSettles(c, o, row)
    \/ TickToTimer
    \/ TickIdle

SpecVariants == Init /\ [][NextVariants]_vars

(***************************************************************************)
(* The latency history on its own: one direct call after the other is made *)
(* and settles, each after some measured latency; only the call counter    *)
(* and the history are followed.                                           *)
(***************************************************************************)
MaxSamples == 12
MaxSample == 2

LatencySample(latency) ==
    /\ callCount < MaxSamples
    /\ callCount' = callCount + 1
    /\ latencyHistory' = updateLatencyHistory(latencyHistory, latency)
    /\ UNCHANGED << lastInterimText, pauseTimer, prefetchDebounceTimer,
                    autoHideTimer, isProcessingLLM, lastValidSuggestions, display,
                    suggestionCache, activePrefetchCalls, calls, livePreview,
                    lastUpdate, eventCount, lastFailure, recordingVars,
                    svcVars, mobileVars >>

NextLatency ==
    \E latency \in 1..MaxSample : LatencySample(latency)

SpecLatency == Init /\ [][NextLatency]_vars

(***************************************************************************)
(* One sentence and a remote service that can fail, with every choice      *)
(* Math.random can make in getFallbackSuggestions.                         *)
(***************************************************************************)
AllFallbackRows == 1..Len(fallbacks)

NextFallback ==
    \/ OnRecognitionResult(TextA)
    \/ PauseTimerFires
    \/ PrefetchTimerFires
    \/ AutoHideTimerFires
    \/ \E c \in calls, o \in {"ok", "fail"}, row \in AllFallbackRows :
          PrefetchSettles(c, o, row)
    \/ \E c \in calls, o \in {"ok", "fail"}, row \in AllFallbackRows :
          DirectSettles(c, o, row)
    \/ TickToTimer
    \/ TickIdle

SpecFallback == Init /\ [][NextFallback]_vars

(***************************************************************************)
(* Recording sessions.  `recognition` follows the browser's recognizer:    *)
(* "idle", "starting" after start(), "started" once onstart has run,       *)
(* "stopping" after stop(), "failed" once onerror has run; onend follows   *)
(* and leaves it idle.  start() throws unless the recognizer is idle.      *)
(***************************************************************************)
ErrorTypes ==
    {"no-speech", "audio-capture", "not-allowed", "network",
     "language-not-supported", "aborted"}

\* startRecording: isListening is set only when recognition.start() returns
StartRecording ==
    /\ recognition = "idle"
    /\ recognition' = "starting"
    /\ isListening' = TRUE
    /\ UNCHANGED << desktopVars, latencyHistory, svcVars, mobileVars >>

StopRecording ==
    /\ isListening
    /\ recognition' = IF recognition \in {"starting", "started"}
                      THEN "stopping" ELSE recognition
    /\ isListening' = FALSE
    /\ UNCHANGED << desktopVars, latencyHistory, svcVars, mobileVars >>

\* onRecognitionStart touches the status display only
OnRecognitionStart ==
    /\ recognition = "starting"
    /\ recognition' = "started"
    /\ UNCHANGED << isListening, desktopVars, latencyHistory, svcVars, mobileVars >>

\* onRecognitionError shows the message for event.error and the error state
\* of the status display
OnRecognitionError(error) ==
    /\ recognition \in {"starting", "started", "stopping"}
    /\ recognition' = "failed"
    /\ UNCHANGED << isListening, desktopVars, latencyHistory, svcVars, mobileVars >>

NextRecording ==
    \/ StartRecording
    \/ StopRecording
    \/ OnRecognitionStart
    \/ \E error \in ErrorTypes : OnRecognitionError(error)
    \/ recognition # "idle" /\ OnRecognitionEnd
    \/ recognition = "started" /\ OnRecognitionResult(TextA)
    \/ PauseTimerFires
    \/ PrefetchTimerFires
    \/ \E c \in calls : PrefetchSettles(c, "ok", 1)
    \/ \E c \in calls : DirectSettles(c, "ok", 1)
    \/ TickToTimer

SpecRecording == Init /\ [][NextRecording]_vars

(***************************************************************************)
(* Speech, remote calls and the clear button.  Every transcript update     *)
(* carries words, so the live preview shows the placeholder exactly from   *)
(* construction or a clearTranscription until the next update.             *)
(***************************************************************************)
NextClear ==
    \/ \E t \in {TextA, TextB} : OnRecognitionResult(t)
    \/ PauseTimerFires
    \/ PrefetchTimerFires
    \/ \E c \in calls, o \in {"ok", "fail"} : PrefetchSettles(c, o, 1)
    \/ \E c \in calls, o \in {"ok", "fail"} : DirectSettles(c, o, 1)
    \/ ClearTranscription
    \/ TickToTimer

SpecClear == Init /\ [][NextClear]_vars

(***************************************************************************)
(* SharedLLMService.  A generateSuggestions call runs up to its await of   *)
(* makeAPIRequest (SvcGenerate) and, unless it has returned by then, goes  *)
(* on when the request settles (SvcSettle).  Results are followed without  *)
(* their timestamp field, which the service never reads.                   *)
(***************************************************************************)
maxRequestsPerMinute == 30
rateWindow == 60000
svcCacheLimit == 50

MaxPending == 2

\* `${inputText}_${JSON.stringify(context)}` for the default context {}, each
\* run of whitespace replaced by '_', in lower case
RECURSIVE replaceSpaces(_)
replaceSpaces(s) ==
    IF s = <<>> THEN <<>>
    ELSE IF IsSpace(Head(s)) THEN <<"_">> \o replaceSpaces(trimStart(s))
    ELSE <<Head(s)>> \o replaceSpaces(Tail(s))

getCacheKey(inputText) ==
    toLowerCase(replaceSpaces(inputText \o <<"_", "{", "}">>))

SvcCacheHas(cache, key) == \E i \in 1..Len(cache) : cache[i].key = key

SvcCacheGet(cache, key) ==
    cache[CHOOSE i \in 1..Len(cache) : cache[i].key = key].result

\* cacheResult: the first key goes when the cache is full; in Map.set a key
\* already present keeps its place
svcCacheResult(cache, key, result) ==
    LET room == IF Len(cache) >= svcCacheLimit THEN Tail(cache) ELSE cache
    IN  IF SvcCacheHas(room, key)
        THEN [i \in 1..Len(room) |->
                 IF room[i].key = key THEN [key |-> key, result |-> result]
                 ELSE room[i]]
        ELSE Append(room, [key |-> key, result |-> result])

\* checkRateLimit resetting the counter after half a window
checkRateLimit_HalfWindow(limiter) ==
    LET reset == IF limiter.sinceReset >= rateWindow \div 2
                 THEN [requests |-> 0, sinceReset |-> 0]
                 ELSE limiter
    IN  IF reset.requests >= maxRequestsPerMinute
        THEN [allowed |-> FALSE, rateLimiter |-> reset]
        ELSE [allowed |-> TRUE,
              rateLimiter |-> [reset EXCEPT !.requests = reset.requests + 1]]

\* checkRateLimit: whether the request may go on, and the limiter afterwards
checkRateLimit(limiter) ==
    LET reset == IF limiter.sinceReset >= rateWindow
                 THEN [requests |-> 0, sinceReset |-> 0]
                 ELSE limiter
    IN  IF reset.requests >= maxRequestsPerMinute
        THEN [allowed |-> FALSE, rateLimiter |-> reset]
        ELSE [allowed |-> TRUE,
              rateLimiter |-> [reset EXCEPT !.requests = reset.requests + 1]]

\* the messages of the errors that reach the catch block of generateSuggestions
RateLimitMessage == "Rate limit exceeded. Please wait before making more requests."
Failures ==
    {"Failed to fetch", "API request failed: 500", "Request timeout - please try again",
     "Unexpected end of JSON input"}

\* getErrorFallback letting the error through to the caller
getErrorFallback_Rethrows(inputText, error) ==
    [settled |-> "rejected", suggestions |-> <<>>, source |-> "", error |-> error]

getErrorFallback(inputText, error) ==
    [settled |-> "resolved",
     suggestions |-> << inputText \o <<" - please continue">>,
                        inputText \o <<" and more details">>,
                        inputText \o <<" with additional context">>,
                        <<"Please try again">> >>,
     source |-> "fallback",
     error |-> error]

\* a line of the answer without its list number, dash and outer whitespace
RECURSIVE dropDigits(_)
dropDigits(s) ==
    IF s # <<>> /\ Head(s) \in {"0", "1", "2", "3", "4", "5", "6", "7", "8", "9"}
    THEN dropDigits(Tail(s))
    ELSE s

cleanLine(line) ==
    LET rest == dropDigits(line)
        unnumbered == IF rest # line /\ rest # <<>> /\ Head(rest) = "."
                      THEN trimStart(Tail(rest))
                      ELSE line
        undashed == IF unnumbered # <<>> /\ Head(unnumbered) = "-"
                    THEN trimStart(Tail(unnumbered))
                    ELSE unnumbered
    IN  trim(undashed)

\* parseSuggestions of a content given as its lines: the first five lines
\* that are not empty once cleaned, or the cleaned content itself
parseSuggestions(content) ==
    LET cleaned == [i \in 1..Len(content) |-> cleanLine(content[i])]
        kept == SelectSeq(cleaned, LAMBDA line : Len(line) > 0 /\ Len(line) < 200)
    IN  IF Len(kept) = 0 THEN << <<>> >>
        ELSE SubSeq(kept, 1, IF Len(kept) < 5 THEN Len(kept) ELSE 5)

\* The response bodies a request that got through can bring.  format tells
\* where the text sits: choices[0].message.content, content[0].text, the
\* body itself (a JSON string), or nowhere; content holds the text's lines,
\* none for the empty string.
Bodies ==
    { [format |-> "openai",
       content |-> << <<"1", ".", " ", "x", "?">>, <<"-", " ", "y", "?", " ">> >>],
      [format |-> "anthropic", content |-> << <<"1", ".", " ", "x", "?">> >>],
      [format |-> "string", content |-> <<>>],
      [format |-> "openai", content |-> <<>>],
      [format |-> "other", content |-> <<>>] }

\* processSuggestions: an empty text in choices or content is falsy and falls
\* through to the next branch; the throw of the last branch lands in the
\* method's own catch block
processSuggestions(response) ==
    IF \/ response.format \in {"openai", "anthropic"} /\ response.content # <<>>
       \/ response.format = "string"
    THEN [settled |-> "resolved", suggestions |-> parseSuggestions(response.content),
          source |-> "llm", error |-> ""]
    ELSE [settled |-> "resolved",
          suggestions |-> << <<"Error processing suggestions">> >>,
          source |-> "error", error |-> ""]

SvcInputs == {TextA, TextAUpper, TextB}

\* generateSuggestions(inputText) up to the await of makeAPIRequest
SvcGenerate(inputText) ==
    LET limit == checkRateLimit(service.rateLimiter)
        cacheKey == getCacheKey(inputText)
    IN  /\ service' = [service EXCEPT !.rateLimiter = limit.rateLimiter]
        /\ IF ~limit.allowed
           THEN /\ svcResult' = getErrorFallback(inputText, RateLimitMessage)
                /\ UNCHANGED svcPending
           ELSE IF SvcCacheHas(service.cache, cacheKey)
           THEN /\ svcResult' = SvcCacheGet(service.cache, cacheKey)
                /\ UNCHANGED svcPending
           ELSE /\ Len(svcPending) < MaxPending
                /\ svcPending' = Append(svcPending, inputText)
                /\ UNCHANGED svcResult
        /\ UNCHANGED << desktopVars, recordingVars, latencyHistory, mobileVars >>

RemoveAt(seq, i) == SubSeq(seq, 1, i - 1) \o SubSeq(seq, i + 1, Len(seq))

\* makeAPIRequest of the i-th waiting call returns the body `response`
SvcResponse(i, response) ==
    /\ i \in 1..Len(svcPending)
    /\ LET cacheKey == getCacheKey(svcPending[i])
           suggestions == processSuggestions(response)
       IN  /\ service' = [service EXCEPT
                            !.cache = svcCacheResult(@, cacheKey, suggestions)]
           /\ svcResult' = suggestions
    /\ svcPending' = RemoveAt(svcPending, i)
    /\ UNCHANGED << desktopVars, recordingVars, latencyHistory, mobileVars >>

\* makeAPIRequest of the i-th waiting call throws an error with message `error`
SvcFailure(i, error) ==
    /\ i \in 1..Len(svcPending)
    /\ svcResult' = getErrorFallback(svcPending[i], error)
    /\ svcPending' = RemoveAt(svcPending, i)
    /\ UNCHANGED << service, desktopVars, recordingVars, latencyHistory, mobileVars >>

\* half a window of the rate limiter goes by
SvcTick ==
    /\ service.rateLimiter.sinceReset < rateWindow
    /\ service' = [service EXCEPT !.rateLimiter.sinceReset = @ + rateWindow \div 2]
    /\ UNCHANGED << svcPending, svcResult, desktopVars, recordingVars,
                    latencyHistory, mobileVars >>

NextService ==
    \/ \E inputText \in SvcInputs : SvcGenerate(inputText)
    \/ \E i \in 1..Len(svcPending), response \in Bodies : SvcResponse(i, response)
    \/ \E i \in 1..Len(svcPending), error \in Failures : SvcFailure(i, error)
    \/ SvcTick

SpecService == Init /\ [][NextService]_vars

(***************************************************************************)
(* testConnection.  Every generateSuggestions call of this specification   *)
(* is the one testConnection makes, for the text 'test'; testConnection    *)
(* goes on when that call has settled.                                     *)
(***************************************************************************)
TextTest == <<"t", "e", "s", "t">>

\* what testConnection returns once its generateSuggestions call has settled
\* as `result`
testConnection(result) ==
    IF result.settled = "rejected"
    THEN [success |-> FALSE, response |-> NoResult, error |-> result.error]
    ELSE [success |-> TRUE, response |-> result, error |-> ""]

NextConnection ==
    \/ SvcGenerate(TextTest)
    \/ \E i \in 1..Len(svcPending), response \in Bodies : SvcResponse(i, response)
    \/ \E i \in 1..Len(svcPending), error \in Failures : SvcFailure(i, error)
    \/ SvcTick

SpecConnection == Init /\ [][NextConnection]_vars

(***************************************************************************)
(* MobileSpeechTranscriber: feature flags.  A stored value and the text    *)
(* JSON.stringify gives are sequences of tokens; JSONparse reads them back *)
(* or throws.  A flags object is followed by its suggestionStyle property, *)
(* Undefined when it has none.                                             *)
(***************************************************************************)
Undefined == "undefined"
Styles == {"default", "keywords", "concise"}
RadioStyles == {"default", "keywords"}   \* the ids defaultStyle, keywordsStyle

Stored(value) == [present |-> TRUE, value |-> value]

\* JSON.stringify that leaves the property's value out
JSONstringify_NoValue(flags) == <<"{", "}">>

JSONstringify(flags) ==
    IF flags.suggestionStyle = Undefined THEN <<"{", "}">>
    ELSE <<"{", "\"", "suggestionStyle", "\"", ":", "\"", flags.suggestionStyle, "\"", "}">>

JSONparse(text) ==
    IF text = <<"null">>
    THEN [ok |-> TRUE, kind |-> "null", suggestionStyle |-> Undefined]
    ELSE IF text = <<"{", "}">>
    THEN [ok |-> TRUE, kind |-> "object", suggestionStyle |-> Undefined]
    ELSE IF /\ Len(text) = 9
            /\ <<text[1], text[2], text[4], text[5], text[6], text[8], text[9]>>
                  = <<"{", "\"", "\"", ":", "\"", "\"", "}">>
    THEN [ok |-> TRUE, kind |-> "object",
          suggestionStyle |-> IF text[3] = "suggestionStyle" THEN text[7]
                              ELSE Undefined]
    ELSE [ok |-> FALSE, kind |-> "none", suggestionStyle |-> Undefined]

\* what else localStorage can hold under the key: the empty string, texts
\* that are JSON but no flags object, and texts that are not JSON
ForeignValues ==
    { <<>>, <<"null">>, <<"{", "}">>, <<"invalid-json">>,
      <<"{", "\"", "suggestionStyle", "\"", ":">>,
      <<"{", "\"", "theme", "\"", ":", "\"", "dark", "\"", "}">> }

\* { ...a, ...b }
MergeFlags(a, b) ==
    IF b.kind = "object" /\ b.suggestionStyle # Undefined
    THEN [suggestionStyle |-> b.suggestionStyle]
    ELSE a

\* loadFeatureFlags whose catch block leaves the flags as they are
loadFeatureFlags_NoReset(flags, saved, checked) ==
    IF ~saved.present \/ saved.value = <<>> \/ ~JSONparse(saved.value).ok
    THEN [featureFlags |-> flags, radio |-> checked, threw |-> FALSE]
    ELSE LET merged == MergeFlags(flags, JSONparse(saved.value))
             selectedStyle == IF merged.suggestionStyle = Undefined
                              THEN "default" ELSE merged.suggestionStyle
         IN  [featureFlags |-> merged,
              radio |-> IF selectedStyle \in RadioStyles THEN selectedStyle
                        ELSE checked,
              threw |-> FALSE]

\* loadFeatureFlags: the flags and the checked radio it leaves, and whether
\* an exception left it
loadFeatureFlags(flags, saved, checked) ==
    IF ~saved.present \/ saved.value = <<>>
    THEN [featureFlags |-> flags, radio |-> checked, threw |-> FALSE]
    ELSE IF ~JSONparse(saved.value).ok
    THEN [featureFlags |-> DefaultFlags, radio |-> checked, threw |-> FALSE]
    ELSE LET merged == MergeFlags(flags, JSONparse(saved.value))
             selectedStyle == IF merged.suggestionStyle = Undefined
                              THEN "default" ELSE merged.suggestionStyle
         IN  [featureFlags |-> merged,
              radio |-> IF selectedStyle \in RadioStyles THEN selectedStyle
                        ELSE checked,
              threw |-> FALSE]

\* saveFeatureFlags: the flags it leaves and the text it stores
saveFeatureFlags(flags, checked) ==
    LET saved == IF checked # NoRadio THEN [suggestionStyle |-> checked]
                 ELSE flags
    IN  [featureFlags |-> saved, stored |-> Stored(JSONstringify(saved))]

\* the page is opened anew: the markup decides which radio is checked, then
\* the constructor runs init(), which ends with loadFeatureFlags()
MobileRestart ==
    /\ mobileOp # "init"
    /\ \E checked \in {NoRadio, "default"} :
          LET loaded == loadFeatureFlags(NewMobile.featureFlags, localStorage, checked)
          IN  /\ mobile' = [NewMobile EXCEPT !.featureFlags = loaded.featureFlags,
                                              !.uncaught = loaded.threw]
              /\ radio' = loaded.radio
    /\ mobileOp' = "init"
    /\ UNCHANGED << localStorage, desktopVars, recordingVars, latencyHistory, svcVars >>

LoadFeatureFlags ==
    /\ LET loaded == loadFeatureFlags(mobile.featureFlags, localStorage, radio)
       IN  /\ mobile' = [mobile EXCEPT !.featureFlags = loaded.featureFlags,
                                       !.uncaught = @ \/ loaded.threw]
           /\ radio' = loaded.radio
    /\ mobileOp' = "load"
    /\ UNCHANGED << localStorage, desktopVars, recordingVars, latencyHistory, svcVars >>

SaveFeatureFlags ==
    /\ LET saved == saveFeatureFlags(mobile.featureFlags, radio)
       IN  /\ mobile' = [mobile EXCEPT !.featureFlags = saved.featureFlags]
           /\ localStorage' = saved.stored
    /\ mobileOp' = "save"
    /\ UNCHANGED << radio, desktopVars, recordingVars, latencyHistory, svcVars >>

\* the user checks a radio; its change listener runs saveFeatureFlags
SelectStyle(style) ==
    /\ style \in RadioStyles /\ style # radio
    /\ radio' = style
    /\ LET saved == saveFeatureFlags(mobile.featureFlags, style)
       IN  /\ mobile' = [mobile EXCEPT !.featureFlags = saved.featureFlags]
           /\ localStorage' = saved.stored
    /\ mobileOp' = "select"
    /\ UNCHANGED << desktopVars, recordingVars, latencyHistory, svcVars >>

\* featureFlags.suggestionStyle is assigned from outside while no radio is
\* checked or the radio of that style is
SetSuggestionStyle(style) ==
    /\ radio \in {NoRadio, style}
    /\ mobile.featureFlags.suggestionStyle # style
    /\ mobile' = [mobile EXCEPT !.featureFlags = [suggestionStyle |-> style]]
    /\ mobileOp' = "set"
    /\ UNCHANGED << localStorage, radio, desktopVars, recordingVars,
                    latencyHistory, svcVars >>

\* something else writes the stored value or removes it
StorageWrite(stored) ==
    /\ localStorage # stored
    /\ localStorage' = stored
    /\ mobileOp' = "storage"
    /\ UNCHANGED << mobile, radio, desktopVars, recordingVars, latencyHistory, svcVars >>

NextFlags ==
    \/ MobileRestart
    \/ LoadFeatureFlags
    \/ SaveFeatureFlags
    \/ \E style \in RadioStyles : SelectStyle(style)
    \/ \E style \in Styles : SetSuggestionStyle(style)
    \/ \E stored \in {Missing} \cup {Stored(value) : value \in ForeignValues} :
          StorageWrite(stored)

SpecFlags == Init /\ [][NextFlags]_vars

(***************************************************************************)
(* MobileSpeechTranscriber: transcript, pause detection, prefetch and the  *)
(* suggestion cache.  The cache is keyed by the text as it is.  Timeouts   *)
(* are pending or not; a cache entry is `old` once cacheMaxAge has passed  *)
(* since it was stored.  The latency fields, which feed console output     *)
(* only, are left out.                                                     *)
(***************************************************************************)
mobileMaxCacheSize == 20
MaxTranscript == 5

mobileWordCount(text) ==
    LET t == trim(text)
    IN  Cardinality({i \in 1..Len(t) :
            ~IsSpace(t[i]) /\ (i = 1 \/ IsSpace(t[i - 1]))})

updateTextDisplay(text) == IF trim(text) # <<>> THEN text ELSE MobilePlaceholder

\* what getLLMSuggestions parses out of a successful answer for `text`
MobileAnswer(text) == << text \o <<"?">> >>

MobileCacheHas(cache, text) == \E i \in 1..Len(cache) : cache[i].key = text
MobileCacheGet(cache, text) == cache[CHOOSE i \in 1..Len(cache) : cache[i].key = text]

cacheSuggestions(cache, text, suggestions) ==
    LET entry == [key |-> text, suggestions |-> suggestions, old |-> FALSE]
        set == IF MobileCacheHas(cache, text)
               THEN [i \in 1..Len(cache) |->
                        IF cache[i].key = text THEN entry ELSE cache[i]]
               ELSE Append(cache, entry)
    IN  IF Len(set) > mobileMaxCacheSize THEN Tail(set) ELSE set

mobileDisplaySuggestions(m, suggestions) ==
    [m EXCEPT !.lastValidSuggestions = [present |-> TRUE, suggestions |-> suggestions],
              !.lastSuggestionContext = m.lastInterimText,
              !.pills = [state |-> "shown", suggestions |-> suggestions]]

\* triggerLLMSuggestions up to its await of getLLMSuggestions
mobileTriggerLLMSuggestions(m, text) ==
    IF trim(text) = <<>> \/ mobileWordCount(text) < 3 THEN m
    ELSE IF m.isProcessingLLM THEN m
    ELSE IF /\ MobileCacheHas(m.suggestionCache, text)
            /\ ~MobileCacheGet(m.suggestionCache, text).old
    THEN mobileDisplaySuggestions(m, MobileCacheGet(m.suggestionCache, text).suggestions)
    ELSE [m EXCEPT !.pills = [state |-> "thinking", suggestions |-> m.pills.suggestions],
                   !.isProcessingLLM = TRUE,
                   !.calls = @ \cup {[kind |-> "direct", text |-> text]}]

\* prefetchSuggestions up to its await
mobilePrefetchSuggestions(m, text) ==
    IF trim(text) = <<>> \/ mobileWordCount(text) < 3 THEN m
    ELSE IF text \in m.activePrefetchCalls THEN m
    ELSE IF MobileCacheHas(m.suggestionCache, text) THEN m
    ELSE [m EXCEPT !.activePrefetchCalls = @ \cup {text},
                   !.calls = @ \cup {[kind |-> "prefetch", text |-> text]}]

MobileStep(op) ==
    /\ mobileOp' = op
    /\ UNCHANGED << localStorage, radio, desktopVars, recordingVars,
                    latencyHistory, svcVars >>

\* handleSpeechResult for an event that brings the final transcript `final`
\* and the interim transcript `interim`
HandleSpeechResult(final, interim) ==
    /\ Len(mobile.currentSessionTranscript) + Len(final) <= MaxTranscript
    /\ LET session == mobile.currentSessionTranscript \o final
           fullText == trim(mobile.persistentTranscript \o <<" ">> \o session
                            \o <<" ">> \o interim)
           textForLLM == mobile.persistentTranscript \o <<" ">> \o session
           shown == [mobile EXCEPT !.currentSessionTranscript = session,
                                   !.liveText = updateTextDisplay(fullText)]
           handled ==
              IF final # <<>> /\ trim(textForLLM) # <<>>
              THEN mobileTriggerLLMSuggestions(
                      [shown EXCEPT !.lastInterimText = trim(textForLLM)],
                      trim(textForLLM))
              ELSE IF interim # <<>> /\ mobileWordCount(fullText) >= 3
              THEN [shown EXCEPT !.prefetchDebounceTimer =
                                     [armed |-> TRUE, text |-> fullText]]
              ELSE shown
       IN  mobile' = [handled EXCEPT !.pauseTimer = TRUE]
    /\ MobileStep("result")

\* the pause timeout set by resetPauseTimer
MobilePauseFires ==
    /\ mobile.pauseTimer
    /\ LET m == [mobile EXCEPT !.pauseTimer = FALSE]
       IN  mobile' =
              IF m.lastInterimText # <<>> /\ mobileWordCount(m.lastInterimText) >= 3
              THEN mobileTriggerLLMSuggestions(m, m.lastInterimText)
              ELSE m
    /\ MobileStep("pause")

\* the timeout set by debouncedPrefetch
MobileDebounceFires ==
    /\ mobile.prefetchDebounceTimer.armed
    /\ LET m == [mobile EXCEPT !.prefetchDebounceTimer.armed = FALSE]
           text == mobile.prefetchDebounceTimer.text
       IN  mobile' = IF mobileWordCount(text) >= 3
                     THEN mobilePrefetchSuggestions(m, text) ELSE m
    /\ MobileStep("debounce")

\* getLLMSuggestions settles inside triggerLLMSuggestions
MobileDirectSettles(c, outcome) ==
    /\ c \in mobile.calls /\ c.kind = "direct"
    /\ LET m == [mobile EXCEPT !.calls = @ \ {c}, !.isProcessingLLM = FALSE]
       IN  mobile' =
              CASE outcome = "ok" ->
                      LET d == mobileDisplaySuggestions(m, MobileAnswer(c.text))
                      IN  [d EXCEPT !.suggestionCache =
                                 cacheSuggestions(@, c.text, MobileAnswer(c.text))]
                [] outcome = "empty" -> [m EXCEPT !.pills = NoPills]
                [] OTHER ->
                      IF m.lastValidSuggestions.present
                      THEN mobileDisplaySuggestions(m, m.lastValidSuggestions.suggestions)
                      ELSE [m EXCEPT !.pills = NoPills]
    /\ MobileStep("settle")

\* getLLMSuggestions settles inside prefetchSuggestions
MobilePrefetchSettles(c, outcome) ==
    /\ c \in mobile.calls /\ c.kind = "prefetch"
    /\ LET m == [mobile EXCEPT !.calls = @ \ {c},
                               !.activePrefetchCalls = @ \ {c.text}]
       IN  mobile' =
              IF outcome = "ok"
              THEN [m EXCEPT !.suggestionCache =
                        cacheSuggestions(@, c.text, MobileAnswer(c.text))]
              ELSE m
    /\ MobileStep("settle")

ClearText ==
    /\ mobile' = [mobile EXCEPT !.liveText = MobilePlaceholder,
                                !.persistentTranscript = <<>>,
                                !.currentSessionTranscript = <<>>,
                                !.lastInterimText = <<>>,
                                !.pills = NoPills,
                                !.pauseTimer = FALSE,
                                !.prefetchDebounceTimer.armed = FALSE,
                                !.lastValidSuggestions = NoMobileSuggestions,
                                !.lastSuggestionContext = <<>>]
    /\ MobileStep("clear")

\* cacheMaxAge goes by while no timeout is pending
MobileTimePasses ==
    /\ ~mobile.pauseTimer /\ ~mobile.prefetchDebounceTimer.armed
    /\ \E i \in 1..Len(mobile.suggestionCache) : ~mobile.suggestionCache[i].old
    /\ mobile' = [mobile EXCEPT !.suggestionCache =
                     [i \in 1..Len(@) |-> [@[i] EXCEPT !.old = TRUE]]]
    /\ MobileStep("time")

NextMobile ==
    \/ \E event \in { [final |-> TextA, interim |-> <<>>],
                      [final |-> <<>>, interim |-> TextB] } :
          HandleSpeechResult(event.final, event.interim)
    \/ MobilePauseFires
    \/ MobileDebounceFires
    \/ \E c \in mobile.calls, o \in Outcomes : MobileDirectSettles(c, o)
    \/ \E c \in mobile.calls, o \in Outcomes : MobilePrefetchSettles(c, o)
    \/ ClearText
    \/ MobileTimePasses

SpecMobile == Init /\ [][NextMobile]_vars

(***************************************************************************)
(* One sentence that the recogniser delivers first as an interim result    *)
(* with capitals and then as a final result without.                       *)
(***************************************************************************)
NextMobileKeys ==
    \/ \E event \in { [final |-> TextA, interim |-> <<>>],
                      [final |-> <<>>, interim |-> TextAUpper] } :
          HandleSpeechResult(event.final, event.interim)
    \/ MobilePauseFires
    \/ MobileDebounceFires
    \/ \E c \in mobile.calls, o \in Outcomes : MobileDirectSettles(c, o)
    \/ \E c \in mobile.calls, o \in Outcomes : MobilePrefetchSettles(c, o)
    \/ MobileTimePasses

SpecMobileKeys == Init /\ [][NextMobileKeys]_vars

(***************************************************************************)
(* Many different sentences, each spoken as one final transcript after a   *)
(* clear, so that the mobile cache fills beyond maxCacheSize; the first    *)
(* sentence may be spoken again while it is cached.                        *)
(***************************************************************************)
\* the k-th sentence: three one-letter words
MobileKeyText(k) ==
    LET letter(n) == <<"a", "b", "c">>[(n % 3) + 1]
    IN  << letter(k \div 9), " ", letter(k \div 3), " ", letter(k) >>

\* the sentence after the last one cached or asked for so far, or one of
\* the first ReuseKeys sentences again
MobileWritableKeys ==
    LET used == {k \in 1..MaxKeys :
                    \/ MobileCacheHas(mobile.suggestionCache, MobileKeyText(k))
                    \/ \E c \in mobile.calls : c.text = MobileKeyText(k)}
    IN  {k \in 1..MaxKeys :
            \/ \A u \in used : u < k /\ (k = 1 \/ k - 1 \in used)
            \/ k <= ReuseKeys /\ k \in used}

NextMobileCache ==
    \/ \E k \in MobileWritableKeys : HandleSpeechResult(MobileKeyText(k), <<>>)
    \/ MobilePauseFires
    \/ \E c \in mobile.calls : MobileDirectSettles(c, "ok")
    \/ ClearText
    \/ MobileTimePasses

SpecMobileCache == Init /\ [][NextMobileCache]_vars

(***************************************************************************)
(* Properties                                                              *)
(***************************************************************************)
KeyOf(c) == CacheKey(c.text)
CallIds(cs) == {c.id : c \in cs}

\* C1: for every normalized key at most one remote suggestion call is
\* outstanding at any time; a prefetch call and a pause-triggered call for
\* the same text are never outstanding together.
C1_OneCallPerKey ==
    \A c1, c2 \in calls : KeyOf(c1) = KeyOf(c2) => c1 = c2

\* C2: when a call for key A settles after the display has come to show the
\* result for another key B, the displayed suggestions stay B's and A's
\* result lands in the cache; for prefetch calls and direct calls alike.
C2_StaleCompletionSafe ==
    [][\A c \in calls, o \in Outcomes, row \in FallbackRows :
          ( /\ PrefetchSettles(c, o, row) \/ DirectSettles(c, o, row)
            /\ c.stale
            /\ display.visible
            /\ display.kind \in {"chips", "persistent"}
            /\ CacheKey(display.forText) # KeyOf(c) )
          => /\ display' = display
             /\ CacheHas(suggestionCache', KeyOf(c))]_vars

ScenarioKey == CacheKey(ScenarioTexts[3])

\* C3: in the scenario at most one remote call is ever made, it is made
\* for "I'm planning a trip", and once the pause has fired and every call has
\* settled exactly one call has been made and the cache holds exactly one
\* entry, under the normalized text, with source 'llm'.
C3_ScenarioOneCall ==
    /\ callCount <= 1
    /\ \A c \in calls : c.text = ScenarioTexts[3]
    /\ ( /\ eventCount = Len(ScenarioTexts)
         /\ ~pauseTimer.armed /\ ~prefetchDebounceTimer.armed
         /\ calls = {} )
       => /\ callCount = 1
          /\ Len(suggestionCache) = 1
          /\ suggestionCache[1].key = ScenarioKey
          /\ suggestionCache[1].source = "llm"

\* C4: the cache never holds more than maxCacheSize entries.
C4_CacheBounded == Len(suggestionCache) <= maxCacheSize

\* more than maxCacheSize texts have been cached and the cache is full
C4_Witness ==
    /\ callCount > maxCacheSize
    /\ Len(suggestionCache) = maxCacheSize

Ages(cache) == {cache[i].age : i \in 1..Len(cache)}
Keys(cache) == {cache[i].key : i \in 1..Len(cache)}

\* C5: caching a new key when maxCacheSize unexpired entries are present
\* leaves exactly maxCacheSize entries, no retained entry is older than a
\* dropped one, and the entry just inserted is retained.
C5_NewestRetained ==
    [][\A k \in 1..MaxKeys :
          LET key == CacheKey(KeyText(k))
              dropped == {i \in 1..Len(suggestionCache) :
                             suggestionCache[i].key \notin Keys(suggestionCache')}
          IN  ( /\ CacheWrite(k)
                /\ ~CacheHas(suggestionCache, key)
                /\ Len(suggestionCache) >= maxCacheSize
                /\ \A a \in Ages(suggestionCache) : a < cacheMaxAge )
              => /\ Len(suggestionCache') = maxCacheSize
                 /\ CacheHas(suggestionCache', key)
                 /\ \A i \in dropped : \A a \in Ages(suggestionCache') :
                        a <= suggestionCache[i].age]_vars

\* C6: a key is a valid hit right after cacheResult has stored an entry for
\* it, and no entry whose age has reached cacheMaxAge is a valid hit.
C6_TTL ==
    [][/\ \A k \in 1..MaxKeys :
             CacheWrite(k) => isCacheValid(suggestionCache', CacheKey(KeyText(k)))
       /\ \A i \in 1..Len(suggestionCache') :
             suggestionCache'[i].age >= cacheMaxAge
                => ~isCacheValid(suggestionCache', suggestionCache'[i].key)]_vars

\* C7: when the debounce timeout runs prefetchSuggestions, it runs it for
\* the text of the latest transcript update, never for a superseded one.
C7_PrefetchForLastUpdate ==
    [][PrefetchTimerFires => prefetchDebounceTimer.text = lastUpdate]_vars

ShortTexts == {t \in Texts : WordCount(t) < minWords}

\* C8: a text of fewer than 3 words starts no remote call and leaves the
\* display as it is, when it arrives, when its debounce timeout fires and
\* when its pause timeout fires; no outstanding call is for such a text.
C8_WordCountGate ==
    [][/\ ( \/ \E t \in ShortTexts : OnRecognitionResult(t)
            \/ PrefetchTimerFires /\ prefetchDebounceTimer.text \in ShortTexts
            \/ PauseTimerFires /\ pauseTimer.text \in ShortTexts )
          => /\ calls' = calls
             /\ callCount' = callCount
             /\ display' = display
             /\ lastValidSuggestions' = lastValidSuggestions
       /\ \A c \in calls' : WordCount(c.text) >= minWords]_vars

\* a two-word text was the only update after an earlier one, both its
\* timeouts have fired, and suggestions were on display throughout
C8_Witness ==
    /\ eventCount = 2
    /\ lastUpdate = TextShort
    /\ lastInterimText = TextShort
    /\ ~pauseTimer.armed /\ ~prefetchDebounceTimer.armed
    /\ display.visible /\ display.kind = "chips"

PauseHit ==
    /\ PauseTimerFires
    /\ isCacheValid(suggestionCache, CacheKey(pauseTimer.text))

Cached == CacheGet(suggestionCache, CacheKey(pauseTimer.text))

ShownFromCache ==
    /\ display'.visible
    /\ display'.kind = "chips"
    /\ display'.chips = Cached.suggestions
    /\ display'.label = SourceLabel(Cached.source, TRUE)
    /\ lastValidSuggestions'.isFromCache
    /\ lastValidSuggestions'.source = Cached.source

C10_MissFetches ==
    [][( /\ PauseTimerFires
         /\ WordCount(pauseTimer.text) >= minWords
         /\ ~isCacheValid(suggestionCache, CacheKey(pauseTimer.text))
         /\ lastValidSuggestions.present
         /\ Len(lastValidSuggestions.suggestions) > 0 )
       => /\ display'.visible
          /\ display'.kind = "persistent"
          /\ display'.chips = lastValidSuggestions.suggestions
          /\ \E c \in calls' : KeyOf(c) = CacheKey(pauseTimer.text)]_vars

\* the pause timeout fires for a text of at least 3 words that has no valid
\* cache entry while there are no previous suggestions
PauseMissNoPrevious ==
    /\ PauseTimerFires
    /\ WordCount(pauseTimer.text) >= minWords
    /\ ~isCacheValid(suggestionCache, CacheKey(pauseTimer.text))
    /\ ~(lastValidSuggestions.present /\ Len(lastValidSuggestions.suggestions) > 0)

\* C11: when the pause timeout fires for a text of at least 3 words without
\* a valid cache entry and without previous suggestions, a remote call for
\* that text is in flight afterwards, also when another pause-triggered call
\* is still in flight.
C11_PauseRequestNotDropped ==
    [][PauseMissNoPrevious =>
          \E c \in calls' : KeyOf(c) = CacheKey(pauseTimer.text)]_vars

Failed(c) == \E row \in FallbackRows : PrefetchSettles(c, "fail", row)

C14_PauseTimerRearmed ==
    [][\A t \in Texts :
          OnRecognitionResult(t) /\ trim(t) # <<>>
             => pauseTimer' = Timer(pauseDelay, t)]_vars

C17_PersistedNotAutoHidden ==
    [][AutoHideTimerFires =>
          ~(display.visible /\ display.kind = "persistent")]_vars

\* C18: every call that settles, prefetch or direct, successful or failed,
\* leaves a cache entry for its normalized key.
C18_EverySettleCached ==
    [][\A c \in calls, o \in Outcomes, row \in FallbackRows :
          PrefetchSettles(c, o, row) \/ DirectSettles(c, o, row)
             => CacheHas(suggestionCache', KeyOf(c))]_vars

\* C19: a completed prefetch leaves the display unchanged when nothing is
\* shown and when the suggestions shown were produced for another key.
C19_PrefetchRefreshSameKey ==
    [][\A c \in calls, o \in Outcomes, row \in FallbackRows :
          ( /\ PrefetchSettles(c, o, row)
            /\ \/ ~display.visible
               \/ /\ display.kind \in {"chips", "persistent"}
                  /\ CacheKey(display.forText) # KeyOf(c) )
          => display' = display]_vars

\* C20: right after clearTranscription the cache and the registry of
\* pending calls are empty, no timeout is pending, nothing is visible and
\* the last valid suggestions are reset.
C20_ClearResets ==
    [][ClearTranscription =>
          /\ suggestionCache' = <<>>
          /\ activePrefetchCalls' = {}
          /\ ~pauseTimer'.armed
          /\ ~prefetchDebounceTimer'.armed
          /\ ~autoHideTimer'.armed
          /\ ~display'.visible
          /\ lastValidSuggestions' = NoSuggestions]_vars

\* a prefetch call is in flight whose registration the clear has removed
C20_Witness ==
    /\ \E c \in calls : c.kind = "prefetch" /\ ~ActiveHas(activePrefetchCalls, KeyOf(c))
    /\ suggestionCache = <<>>
    /\ ~display.visible
    /\ ~lastValidSuggestions.present

\* C15: applying a suggestion arms the pause timer for the new text, as a
\* transcript update with that text would.
C15_ApplyArmsPause ==
    [][\A i \in 1..Len(display.chips) :
          ApplySuggestion(display.chips[i])
             => pauseTimer' = Timer(pauseDelay, livePreview')]_vars

\* C13: no call is started for the key of a call that failed less than
\* cacheMaxAge ago, by the debounce timeout or by the pause timeout, unless
\* the transcript was cleared in between.
C13_NoRetryAfterFailure ==
    [][\A c \in calls' :
          c.id \notin CallIds(calls)
             => ~(lastFailure.present /\ lastFailure.key = KeyOf(c))]_vars

\* C21: a key is present in activePrefetchCalls only while a prefetch call
\* for that key is outstanding, and the key is gone from the registry as soon
\* as that call settles, whether it succeeded, came back empty or failed.
C21_RegistryOnlyWhileOutstanding ==
    [][ /\ \A p \in activePrefetchCalls' :
              \E c \in calls' : c.kind = "prefetch" /\ KeyOf(c) = p.key
        /\ \A c \in calls, o \in Outcomes, row \in FallbackRows :
              PrefetchSettles(c, o, row)
                  => ~ActiveHas(activePrefetchCalls', KeyOf(c)) ]_vars

\* a failed prefetch has settled (its fallback is cached) while another
\* prefetch is still registered
C21_Witness ==
    /\ \E i \in 1..Len(suggestionCache) : suggestionCache[i].source = "fallback"
    /\ activePrefetchCalls # {}

\* C22: texts that differ only by surrounding whitespace or letter case use
\* one cache and registry key: at a pause, a valid entry stored for one
\* spelling is shown as a cache hit for any other spelling without a new
\* call, and while a prefetch call for one spelling is registered the
\* debounce timeout for another spelling starts no call.
C22_VariantsShareKey ==
    [][ /\ \A t1, t2 \in VariantTexts : CacheKey(t1) = CacheKey(t2)
        /\ ( /\ PauseTimerFires
             /\ \E i \in 1..Len(suggestionCache) :
                   /\ suggestionCache[i].key = CacheKey(TextA)
                   /\ suggestionCache[i].age < cacheMaxAge )
           => /\ callCount' = callCount
              /\ CallIds(calls') = CallIds(calls)
              /\ Len(Cached.suggestions) > 0 => ShownFromCache
        /\ ( /\ PrefetchTimerFires
             /\ \E c \in calls : /\ c.kind = "prefetch"
                                 /\ \E p \in activePrefetchCalls : p.id = c.id )
           => /\ callCount' = callCount
              /\ CallIds(calls') = CallIds(calls)
              /\ activePrefetchCalls' = activePrefetchCalls ]_vars

\* the answer fetched for one spelling is on display, from the cache, for
\* another spelling
C22_Witness ==
    /\ display.visible
    /\ lastValidSuggestions.isFromCache
    /\ \E t \in VariantTexts :
          /\ t # display.forText
          /\ trim(t) # trim(display.forText)
          /\ display.chips = LLMAnswer(t)

\* C25: the latency history is a rolling window of capacity 10: it never
\* holds more than 10 samples, and a new sample is appended after the ones
\* already there, the oldest of which is dropped when the window was full.
C25_RollingWindow ==
    [][ /\ Len(latencyHistory') <= maxLatencyHistory
        /\ \A latency \in 1..MaxSample :
              LatencySample(latency) =>
                 latencyHistory' =
                    IF Len(latencyHistory) < 10
                    THEN latencyHistory \o << latency >>
                    ELSE SubSeq(latencyHistory, 2, 10) \o << latency >> ]_vars

\* more than 10 samples have arrived and the window holds differing samples
C25_Witness ==
    /\ callCount > 10
    /\ Len(latencyHistory) = 10
    /\ latencyHistory[1] # latencyHistory[10]

\* C26: the local fallback is deterministic: when a call fails for a text
\* for which an earlier failure's fallback suggestions are still held in the
\* cache, the fallback suggestions of the new failure are the same ones.
C26_FallbackDeterministic ==
    [][\A c \in calls, row \in AllFallbackRows :
          ( /\ CacheHas(suggestionCache, KeyOf(c))
            /\ CacheGet(suggestionCache, KeyOf(c)).source = "fallback" )
          => /\ DirectSettles(c, "fail", row) =>
                   display'.chips = CacheGet(suggestionCache, KeyOf(c)).suggestions
             /\ PrefetchSettles(c, "fail", row) =>
                   CacheGet(suggestionCache', KeyOf(c)).suggestions
                      = CacheGet(suggestionCache, KeyOf(c)).suggestions ]_vars

\* C27: once onRecognitionError has handled a recognition error, of whatever
\* type, isListening is false.
C27_ErrorStopsListening ==
    [][\A error \in ErrorTypes : OnRecognitionError(error) => ~isListening']_vars

\* C23: generateSuggestions never rejects, and every failure of the remote
\* request (network error, non-OK status, timeout, unreadable body) and
\* every rate-limit rejection resolves to a result with source 'fallback'
\* and a non-empty suggestions list.
C23_FailureGivesFallback ==
    [][ /\ svcResult'.settled # "rejected"
        /\ \A i \in 1..Len(svcPending), error \in Failures :
              SvcFailure(i, error) =>
                 /\ svcResult'.settled = "resolved"
                 /\ svcResult'.source = "fallback"
                 /\ Len(svcResult'.suggestions) > 0
        /\ \A inputText \in SvcInputs :
              ( /\ SvcGenerate(inputText)
                /\ service.rateLimiter.requests >= maxRequestsPerMinute
                /\ service.rateLimiter.sinceReset < rateWindow )
              => /\ svcResult'.settled = "resolved"
                 /\ svcResult'.source = "fallback"
                 /\ Len(svcResult'.suggestions) > 0
                 /\ svcPending' = svcPending ]_vars

\* a call has been turned away by the rate limiter while the cache is empty:
\* the requests counted before it have failed or are still waiting
C23_Witness ==
    /\ svcResult.error = RateLimitMessage
    /\ svcResult.source = "fallback"
    /\ service.cache = <<>>

\* C24: every result generateSuggestions resolves to has a source equal to
\* 'llm', 'cache' or 'fallback'.
C24_SourceDocumented ==
    svcResult.settled = "resolved" => svcResult.source \in {"llm", "cache", "fallback"}

\* the flags a newly opened page ends up with for what is stored now
FreshFlags(saved) ==
    loadFeatureFlags(NewMobile.featureFlags, saved, NoRadio).featureFlags

C29_LoadNeverThrows ==
    [][ /\ ~mobile'.uncaught
        /\ LoadFeatureFlags =>
              /\ ~localStorage.present => mobile'.featureFlags = mobile.featureFlags
              /\ ( /\ localStorage.present /\ localStorage.value # <<>>
                   /\ ~JSONparse(localStorage.value).ok )
                 => mobile'.featureFlags = DefaultFlags
        /\ MobileRestart =>
              /\ ~localStorage.present => mobile'.featureFlags = DefaultFlags
              /\ ( /\ localStorage.present /\ localStorage.value # <<>>
                   /\ ~JSONparse(localStorage.value).ok )
                 => mobile'.featureFlags = DefaultFlags ]_vars

\* loadFeatureFlags has run on a stored value that is not JSON while the
\* keywords style was selected, and the flags are the defaults
C29_Witness ==
    /\ mobileOp = "load"
    /\ localStorage = Stored(<<"invalid-json">>)
    /\ radio = "keywords"
    /\ mobile.featureFlags = DefaultFlags

\* C30: immediately after clearText, suggestionCache and activePrefetchCalls
\* of the MobileSpeechTranscriber are empty, so that nothing cached before
\* the clear can answer text spoken after it.
C30_ClearTextResets ==
    [][ClearText => /\ mobile'.suggestionCache = <<>>
                    /\ mobile'.activePrefetchCalls = {}]_vars

\* the direct calls (started by triggerLLMSuggestions) that have not settled
DirectCalls == {c \in calls : c.kind = "direct"}

\* C39: isProcessingLLM is true exactly while a direct call started by
\* triggerLLMSuggestions is outstanding, at most one such call is in flight
\* at any time, and so the flag is false again once the call has settled,
\* whether it succeeded or failed.
C39_ProcessingIffDirectCall ==
    /\ isProcessingLLM <=> DirectCalls # {}
    /\ Cardinality(DirectCalls) <= 1

\* a direct call has settled (its latency is on record) with a failure (its
\* fallback is shown), and the flag is down again
C39_Witness ==
    /\ ~isProcessingLLM
    /\ DirectCalls = {}
    /\ latencyHistory # <<>>
    /\ lastValidSuggestions.present
    /\ lastValidSuggestions.source = "fallback"
    /\ display.visible

\* the prefetch calls that have not settled
PrefetchCalls == {c \in calls : c.kind = "prefetch"}

\* C37: while a prefetch call for key K is outstanding, K is present in
\* activePrefetchCalls, and no second prefetch call for K is in flight at the
\* same time.
C37_OutstandingPrefetchRegistered ==
    /\ \A c \in PrefetchCalls : ActiveHas(activePrefetchCalls, KeyOf(c))
    /\ \A c, d \in PrefetchCalls : KeyOf(c) = KeyOf(d) => c = d

\* C36: from clearTranscription until the next transcript update arrives
\* (while the live preview shows the placeholder) the suggestion cache is
\* empty and no suggestions are visible, also when a call started before the
\* clear settles after it.
C36_ClearedStaysCleared ==
    livePreview = Placeholder =>
        /\ suggestionCache = <<>>
        /\ ~(display.visible /\ display.kind = "chips")

\* C38: at every moment at most one pause timer, one prefetch-debounce timer
\* and one auto-hide timer are pending: no timeout is ever replaced in its
\* field without having been cancelled, so none is left to run a superseded
\* callback.
C38_OneTimerOfEachKind ==
    /\ pauseTimer.superseded = 0
    /\ prefetchDebounceTimer.superseded = 0
    /\ autoHideTimer.superseded = 0

\* the same text has arrived twice within the debounce delay (no call has
\* been made yet): the second update cancelled the pending pause timer
\* without arming a new one and replaced the pending debounce timer
C38_Witness ==
    /\ eventCount = 2
    /\ callCount = 0
    /\ lastInterimText = TextA
    /\ pauseTimer = NoTimer
    /\ prefetchDebounceTimer = Timer(prefetchDebounceDelay, TextA)

\* C35: at most maxRequestsPerMinute generateSuggestions calls get past
\* checkRateLimit between two resets of the counter (every call that gets
\* past is counted), the counter is reset only when rateWindow milliseconds
\* have gone by since the last reset, and every further call in the window
\* is answered with the fallback result without an API request.
C35_RateLimit ==
    [][ /\ service'.rateLimiter.requests <= maxRequestsPerMinute
        /\ \A inputText \in SvcInputs :
              SvcGenerate(inputText) =>
                LET limiter == service.rateLimiter
                    elapsed == limiter.sinceReset >= rateWindow
                    passed  == \/ svcPending' # svcPending
                               \/ svcResult'.error # RateLimitMessage
                IN  /\ ~elapsed =>
                          /\ service'.rateLimiter.sinceReset = limiter.sinceReset
                          /\ service'.rateLimiter.requests >= limiter.requests
                    /\ passed =>
                          service'.rateLimiter.requests =
                              (IF elapsed THEN 0 ELSE limiter.requests) + 1
                    /\ (~elapsed /\ limiter.requests = maxRequestsPerMinute) =>
                          /\ svcResult'.source = "fallback"
                          /\ svcResult'.error = RateLimitMessage
                          /\ svcPending' = svcPending ]_vars

\* thirty calls have been counted in the running window, results are in the
\* cache, and the latest call was turned away with the fallback
C35_Witness ==
    /\ service.rateLimiter.requests = maxRequestsPerMinute
    /\ service.rateLimiter.sinceReset < rateWindow
    /\ service.cache # <<>>
    /\ svcResult.source = "fallback"
    /\ svcResult.error = RateLimitMessage

\* C40: testConnection returns success: false whenever the API request
\* behind it fails or is turned away by the rate limiter.
C40_ReportsRealOutcome ==
    [][ /\ \A i \in 1..Len(svcPending), error \in Failures :
              SvcFailure(i, error) => ~testConnection(svcResult').success
        /\ ( /\ SvcGenerate(TextTest)
             /\ ~checkRateLimit(service.rateLimiter).allowed )
           => ~testConnection(svcResult').success ]_vars

\* C31: in MobileSpeechTranscriber two texts that differ only by letter case
\* or outer whitespace share one cache key: when a final transcript makes
\* triggerLLMSuggestions run for a text while no call is in progress and a
\* valid entry is cached for a text with the same normalised key, the entry
\* is shown and no remote call is started.
C31_MobileVariantsShareKey ==
    [][ ( /\ HandleSpeechResult(TextA, <<>>)
          /\ ~mobile.isProcessingLLM
          /\ \E i \in 1..Len(mobile.suggestionCache) :
                /\ ~mobile.suggestionCache[i].old
                /\ CacheKey(mobile.suggestionCache[i].key) =
                       CacheKey(mobile'.lastInterimText) )
        => /\ mobile'.calls = mobile.calls
           /\ mobile'.pills.state = "shown" ]_vars

\* C32: when the debounce timer of the MobileSpeechTranscriber fires for a
\* text of at least 3 words whose cache entry is older than cacheMaxAge and
\* for which no call is pending, a remote call for the text is started.
C32_MobileExpiredEntryPrefetched ==
    [][ ( /\ MobileDebounceFires
          /\ mobileWordCount(mobile.prefetchDebounceTimer.text) >= 3
          /\ MobileCacheHas(mobile.suggestionCache,
                            mobile.prefetchDebounceTimer.text)
          /\ MobileCacheGet(mobile.suggestionCache,
                            mobile.prefetchDebounceTimer.text).old
          /\ mobile.prefetchDebounceTimer.text \notin mobile.activePrefetchCalls
          /\ \A c \in mobile.calls : c.text # mobile.prefetchDebounceTimer.text )
        => \E c \in mobile'.calls \ mobile.calls :
              c.text = mobile.prefetchDebounceTimer.text ]_vars

\* C34: when the pause timer of the MobileSpeechTranscriber fires, the text
\* it looks up or requests suggestions for is the full text of the update
\* that last restarted the timer (the text on display): a call it starts is
\* for that text, and pills it shows from the cache are those of that text.
C34_MobilePauseUsesLatestText ==
    [][ MobilePauseFires =>
          /\ \A c \in mobile'.calls \ mobile.calls : c.text = mobile.liveText
          /\ ( /\ mobile'.pills # mobile.pills
               /\ mobile'.pills.state = "shown" )
             => mobile'.pills.suggestions = MobileAnswer(mobile.liveText) ]_vars

\* C33: the cache of the MobileSpeechTranscriber never holds more than
\* maxCacheSize entries, and when storing a result pushes it over the limit,
\* the entry removed is the one stored longest ago: no entry that has
\* outlived cacheMaxAge stays while an entry stored later goes.
C33_MobileEvictsOldest ==
    [][ /\ Len(mobile'.suggestionCache) <= mobileMaxCacheSize
        /\ \A c \in mobile.calls :
              ( /\ MobileDirectSettles(c, "ok")
                /\ Len(mobile.suggestionCache) = mobileMaxCacheSize
                /\ ~MobileCacheHas(mobile.suggestionCache, c.text) )
              => \A i, j \in 1..Len(mobile.suggestionCache) :
                    ( /\ ~MobileCacheHas(mobile'.suggestionCache,
                                         mobile.suggestionCache[i].key)
                      /\ MobileCacheHas(mobile'.suggestionCache,
                                        mobile.suggestionCache[j].key) )
                    => ~( /\ ~mobile.suggestionCache[i].old
                          /\ mobile.suggestionCache[j].old ) ]_vars

====
